---- MODULE Spec2Model ----
(***************************************************************************)
(* Model of the two scripts of NIF_WA:                                     *)
(*   Magnetisation_Transfer/mt_calc.py  (MT saturation pipeline)           *)
(*   DTI_analysis/Basic_Metrics.py      (basic DTI metrics pipeline)       *)
(* Each script is a straight-line sequence of subprocess.run calls that    *)
(* communicate through files of a scratch directory.  The state is the     *)
(* script's position, its parsed arguments, its path variables, the file   *)
(* system, and the history of the external commands it started.            *)
(*                                                                         *)
(* Numbers: a voxel or a Python float is a rational <<n, d>> in lowest     *)
(* terms with d > 0, or one of the IEEE specials <<1,0>> (+inf),           *)
(* <<-1,0>> (-inf), <<0,0>> (NaN).  Rounding and the sign of zero are not  *)
(* modelled: every finite operation is exact.                              *)
(***************************************************************************)
EXTENDS Integers, Sequences, FiniteSets, TLC

VARIABLES pc, args, fs, t1, pd, mt, trace, budget, exitcode

vars == <<pc, args, fs, t1, pd, mt, trace, budget, exitcode>>

(***************************************************************************)
(* Bounds of the model.                                                    *)
(***************************************************************************)
MaxFaults == 1
MaxEchoes == 2
MaxGauss == 1
MaxFields == 2

(***************************************************************************)
(* Arithmetic of the external tools and of Python floats.                  *)
(***************************************************************************)
Abs(n) == IF n < 0 THEN -n ELSE n

Sign(n) == IF n < 0 THEN -1 ELSE IF n > 0 THEN 1 ELSE 0

RECURSIVE GCD(_, _)
GCD(a, b) == IF b = 0 THEN a ELSE GCD(b, a % b)

Norm(n, d) ==
    IF d = 0 THEN <<Sign(n), 0>>
    ELSE LET g == GCD(Abs(n), Abs(d))
             s == Sign(d)
         IN  <<s * (n \div g), s * (d \div g)>>

Zero == <<0, 1>>
One == <<1, 1>>
NaN == <<0, 0>>

FromInt(n) == <<n, 1>>

IsFinite(a) == a[2] # 0

IsZero(a) == a[2] # 0 /\ a[1] = 0

Neg(a) == <<-a[1], a[2]>>

\* IEEE addition: NaN absorbs, inf + (-inf) = NaN, inf + x = inf.
Add(a, b) ==
    IF a = NaN \/ b = NaN THEN NaN
    ELSE IF ~IsFinite(a) /\ ~IsFinite(b) THEN (IF a = b THEN a ELSE NaN)
    ELSE IF ~IsFinite(a) THEN a
    ELSE IF ~IsFinite(b) THEN b
    ELSE LET g == GCD(a[2], b[2])
         IN  Norm(a[1] * (b[2] \div g) + b[1] * (a[2] \div g), (a[2] \div g) * b[2])

Sub(a, b) == Add(a, Neg(b))

\* IEEE multiplication: inf * 0 = NaN, inf * x = +-inf.  Finite operands are
\* cross-cancelled before multiplying.
Mul(a, b) ==
    IF IsFinite(a) /\ IsFinite(b)
    THEN LET g1 == GCD(Abs(a[1]), b[2])
             g2 == GCD(Abs(b[1]), a[2])
         IN  Norm((a[1] \div g1) * (b[1] \div g2), (a[2] \div g2) * (b[2] \div g1))
    ELSE <<Sign(a[1]) * Sign(b[1]), 0>>

\* 1/x: 1/0 = inf, 1/inf = 0, 1/NaN = NaN.
Recip(a) ==
    IF a = NaN THEN NaN
    ELSE IF ~IsFinite(a) THEN Zero
    ELSE IF a[1] = 0 THEN <<1, 0>>
    ELSE Norm(a[2], a[1])

\* IEEE division: x/0 = +-inf, 0/0 = NaN, x/inf = 0, inf/inf = NaN.
Div(a, b) == Mul(a, Recip(b))

(***************************************************************************)
(* Files.  A raw Bruker scan holds the voxel's intensity at each echo and, *)
(* for a diffusion scan, the gradient magnitudes.  A volume is the voxel's *)
(* values along axis 3 (the echo axis) with the number of axes.            *)
(***************************************************************************)
Modalities == <<"t1", "pd", "mt">>

RawFile(m) == IF m = "t1" THEN "t1_file" ELSE IF m = "pd" THEN "pd_file" ELSE "mt_file"

ConvertedFile(m) ==
    IF m = "t1" THEN "t1_converted.nii"
    ELSE IF m = "pd" THEN "pd_converted.nii" ELSE "mt_converted.nii"

AvgFile(m) ==
    IF m = "t1" THEN "t1_avg.nii" ELSE IF m = "pd" THEN "pd_avg.nii" ELSE "mt_avg.nii"

FilteredFile(m) ==
    IF m = "t1" THEN "t1_filtered.nii"
    ELSE IF m = "pd" THEN "pd_filtered.nii" ELSE "mt_filtered.nii"

\* Everything the scripts create inside tempdir.
TempFiles ==
    {ConvertedFile(Modalities[i]) : i \in 1..3} \cup {AvgFile(Modalities[i]) : i \in 1..3}
    \cup {FilteredFile(Modalities[i]) : i \in 1..3}
    \cup {"R1.nii", "R2.nii", "R.nii", "A1.nii", "A2.nii", "A.nii", "M1.nii", "M2.nii"}
    \cup {"dti_scan.nii", "dti_scan.bval", "dti_scan.bvec", "dti_scan.mih", "dti_tensor.mih"}

Volume(n, v) == [ndim |-> n, vox |-> v]

RawScan(echoes, bvals) == [echoes |-> echoes, bvals |-> bvals]

\* The result of one external command: its status and the file system it leaves.
Ok(newfs) == [ok |-> TRUE, fs |-> newfs]
Failed(oldfs) == [ok |-> FALSE, fs |-> oldfs]

(***************************************************************************)
(* Command lines.  An argument is a path, a number formatted by an         *)
(* f-string (an int's digits, or a float's repr, which the tool parses     *)
(* back to the same value), an operator word, or a bare Python int.        *)
(***************************************************************************)
File(p) == [t |-> "file", p |-> p, v |-> Zero]
Num(v) == [t |-> "num", p |-> "", v |-> v]
Op(o) == [t |-> "op", p |-> o, v |-> Zero]
PyInt(n) == [t |-> "int", p |-> "", v |-> FromInt(n)]

\* subprocess.run raises TypeError unless every argument is str, bytes or PathLike.
ArgvOK(argv) == \A i \in 1..Len(argv) : argv[i].t # "int"

(***************************************************************************)
(* nanconvert_bruker: a single-echo scan gives a 3D image, a multi-echo    *)
(* scan a 4D image; a diffusion scan also gives the .bval/.bvec sidecars.  *)
(***************************************************************************)
NanConvert(src, dst, f) ==
    IF src \notin DOMAIN f THEN Failed(f)
    ELSE LET raw == f[src]
             n == Len(raw.echoes)
             img == Volume(IF n = 1 THEN 3 ELSE 4, [k \in 1..n |-> FromInt(raw.echoes[k])])
         IN  IF raw.bvals = <<>>
             THEN Ok((dst :> img) @@ f)
             ELSE Ok((dst :> img) @@ ("dti_scan.bval" :> raw.bvals)
                     @@ ("dti_scan.bvec" :> Len(raw.bvals)) @@ f)

RECURSIVE SumSeq(_, _)
SumSeq(s, i) == IF i > Len(s) THEN Zero ELSE Add(s[i], SumSeq(s, i + 1))

\* mrmath <src> mean <dst> -axis 3: the mean along axis 3; an image without
\* that axis is refused.
MrMathMean(src, dst, f) ==
    IF src \notin DOMAIN f THEN Failed(f)
    ELSE IF f[src].ndim < 4 THEN Failed(f)
    ELSE LET v == f[src].vox
         IN  Ok((dst :> Volume(3, <<Div(SumSeq(v, 1), FromInt(Len(v)))>>)) @@ f)

\* mrfilter <src> smooth <dst> -extent N on a one-voxel (uniform) image: the
\* normalised kernel leaves the value.
MrFilterSmooth(src, dst, f) ==
    IF src \notin DOMAIN f THEN Failed(f) ELSE Ok((dst :> f[src]) @@ f)

(***************************************************************************)
(* mrcalc: a stack machine over images and numbers.  An operator pops its  *)
(* second operand first; images of different sizes combine only when one   *)
(* of them has a single value along the axis.                              *)
(***************************************************************************)
ApplyOp(o, a, b) ==
    IF o = "-mult" THEN Mul(a, b)
    ELSE IF o = "-div" THEN Div(a, b)
    ELSE IF o = "-sub" THEN Sub(a, b)
    ELSE Add(a, b)

Max(a, b) == IF a > b THEN a ELSE b

Compatible(x, y) == Len(x.vox) = Len(y.vox) \/ Len(x.vox) = 1 \/ Len(y.vox) = 1

Elementwise(o, x, y) ==
    LET n == Max(Len(x.vox), Len(y.vox))
        at(z, k) == IF Len(z.vox) = 1 THEN z.vox[1] ELSE z.vox[k]
    IN  Volume(Max(x.ndim, y.ndim), [k \in 1..n |-> ApplyOp(o, at(x, k), at(y, k))])

\* The stack after the operands toks[i..]; <<>> when the expression is refused.
RECURSIVE MrCalcEval(_, _, _, _)
MrCalcEval(toks, i, stack, f) ==
    IF i > Len(toks) THEN stack
    ELSE LET tok == toks[i]
             n == Len(stack)
         IN  IF tok.t = "file"
             THEN IF tok.p \in DOMAIN f
                  THEN MrCalcEval(toks, i + 1, Append(stack, f[tok.p]), f)
                  ELSE <<>>
             ELSE IF tok.t = "num"
             THEN MrCalcEval(toks, i + 1, Append(stack, Volume(0, <<tok.v>>)), f)
             ELSE IF n < 2 THEN <<>>
             ELSE IF ~Compatible(stack[n - 1], stack[n]) THEN <<>>
             ELSE MrCalcEval(toks, i + 1,
                      Append(SubSeq(stack, 1, n - 2),
                             Elementwise(tok.p, stack[n - 1], stack[n])), f)

\* mrcalc <operands and operators> <output>: the last argument is the output.
MrCalc(argv, f) ==
    LET n == Len(argv)
        st == MrCalcEval(SubSeq(argv, 1, n - 1), 1, <<>>, f)
    IN  IF Len(st) # 1 THEN Failed(f) ELSE Ok((argv[n].p :> st[1]) @@ f)

\* rm -r -I tempdir: removes the scratch directory with everything in it.
RmTempdir(f) == Ok([p \in (DOMAIN f) \ TempFiles |-> f[p]])

(***************************************************************************)
(* mt_calc.py: arguments and control flow.                                 *)
(***************************************************************************)
At1Default == 20
ApdDefault == 6
AmtDefault == 6
TRt1Default == 18
TRpdDefault == 25
TRmtDefault == 25

Path(m) == IF m = "t1" THEN t1 ELSE IF m = "pd" THEN pd ELSE mt

SetPath(m, p) ==
    /\ t1' = IF m = "t1" THEN p ELSE t1
    /\ pd' = IF m = "pd" THEN p ELSE pd
    /\ mt' = IF m = "mt" THEN p ELSE mt

\* Python's int / int: a float, or ZeroDivisionError (see the Raises predicates).
PyDiv(a, b) == Norm(a, b)

\* Line 70-72: entering the formula stages or the gaussian block.
AfterAverage(a) == IF a.gauss > 0 THEN <<"gauss", "t1">> ELSE <<"calc", "R1">>

\* Mutant of AfterConvert: the averaging block entered whatever the flag.
AfterConvertAlways(a) == <<"avg", "t1">>

\* Line 62: entering the averaging block unless --singleecho.
AfterConvert(a) == IF ~a.singleecho THEN <<"avg", "t1">> ELSE AfterAverage(a)

\* One subprocess.run without check=True: the command runs, its status is
\* dropped, and the script goes on.  The environment may make a command fail
\* that would have succeeded (budget bounds how often).
Run(stage, tool, res, next) ==
    \E fault \in (IF res.ok /\ budget > 0 THEN BOOLEAN ELSE {FALSE}) :
        LET ok == res.ok /\ ~fault
        IN  /\ fs' = IF ok THEN res.fs ELSE fs
            /\ trace' = Append(trace, [stage |-> stage, tool |-> tool,
                                       rc |-> IF ok THEN 0 ELSE 1])
            /\ budget' = IF fault THEN budget - 1 ELSE budget
            /\ pc' = next
            /\ UNCHANGED <<args, exitcode>>

\* An uncaught Python exception: traceback, exit status 1, nothing after it runs.
Raise ==
    /\ pc' = <<"crashed", "">>
    /\ exitcode' = 1
    /\ UNCHANGED <<args, fs, t1, pd, mt, trace, budget>>

\* Lines 57-59.
Convert(m) ==
    /\ pc = <<"conv", m>>
    /\ Run(pc, "nanconvert_bruker", NanConvert(RawFile(m), ConvertedFile(m), fs),
           IF m = "t1" THEN <<"conv", "pd">>
           ELSE IF m = "pd" THEN <<"conv", "mt">> ELSE AfterConvert(args))
    /\ UNCHANGED <<t1, pd, mt>>

\* Lines 63-68.
Average(m) ==
    /\ pc = <<"avg", m>>
    /\ Run(pc, "mrmath", MrMathMean(Path(m), AvgFile(m), fs),
           IF m = "t1" THEN <<"avg", "pd">>
           ELSE IF m = "pd" THEN <<"avg", "mt">> ELSE AfterAverage(args))
    /\ SetPath(m, AvgFile(m))

\* Lines 73, 75, 77: the extent is passed as the int argparse produced.
ArgvFilter(m, gauss) ==
    <<File(Path(m)), Op("smooth"), File(FilteredFile(m)), Op("-extent"), PyInt(gauss)>>

\* Lines 73-78.
GaussFilter(m) ==
    /\ pc = <<"gauss", m>>
    /\ IF ~ArgvOK(ArgvFilter(m, args.gauss))
       THEN Raise
       ELSE /\ Run(pc, "mrfilter", MrFilterSmooth(Path(m), FilteredFile(m), fs),
                   IF m = "t1" THEN <<"gauss", "pd">>
                   ELSE IF m = "pd" THEN <<"gauss", "mt">> ELSE <<"calc", "R1">>)
            /\ SetPath(m, FilteredFile(m))

(***************************************************************************)
(* mt_calc.py: the formula stages, one mrcalc command line each.           *)
(***************************************************************************)
\* Line 96.
ArgvR1(a, t1p, pdp) ==
    <<File(t1p), Num(PyDiv(a.at1, a.TRt1)), Op("-mult"),
      Num(PyDiv(a.apd, a.TRpd)), File(pdp), Op("-mult"), Op("-sub"), File("R1.nii")>>

RaisesR1(a) == a.TRt1 = 0 \/ a.TRpd = 0

\* Mutant of ArgvR2: the two quotients in the other order, (t1/at1) - (pd/apd).
ArgvR2Swapped(a, t1p, pdp) ==
    <<File(t1p), Num(FromInt(a.at1)), Op("-div"),
      File(pdp), Num(FromInt(a.apd)), Op("-div"), Op("-sub"), File("R2.nii")>>

\* Line 97.
ArgvR2(a, t1p, pdp) ==
    <<File(pdp), Num(FromInt(a.apd)), Op("-div"),
      File(t1p), Num(FromInt(a.at1)), Op("-div"), Op("-sub"), File("R2.nii")>>

\* Mutant of ArgvR: the operands of the division in the other order, R2 / R1.
ArgvRSwapped ==
    <<File("R2.nii"), File("R1.nii"), Op("-div"), Num(FromInt(2)), Op("-div"), File("R.nii")>>

\* Line 98.
ArgvR == <<File("R1.nii"), File("R2.nii"), Op("-div"), Num(FromInt(2)), Op("-div"), File("R.nii")>>

\* Line 107.
ArgvA1(a, t1p, pdp) ==
    <<File(pdp), File(t1p), Op("-mult"),
      Num(Sub(PyDiv(a.TRpd * a.at1, a.apd), PyDiv(a.TRt1 * a.apd, a.at1))),
      Op("-mult"), File("A1.nii")>>

RaisesA1(a) == a.apd = 0 \/ a.at1 = 0

\* Line 108.
ArgvA2(a, t1p, pdp) ==
    <<File(t1p), Num(FromInt(a.TRpd * a.at1)), Op("-mult"),
      File(pdp), Num(FromInt(a.TRt1 * a.apd)), Op("-mult"), Op("-sub"), File("A2.nii")>>

\* Line 109.
ArgvA == <<File("A1.nii"), File("A2.nii"), Op("-div"), File("A.nii")>>

\* Line 118.
M3(a) == PyDiv(a.amt * a.amt, 2)

\* Line 120.
ArgvM1(a, mtp) ==
    <<File("A.nii"), Num(FromInt(a.amt)), Op("-mult"), File(mtp), Op("-div"),
      Num(One), Op("-sub"), File("M1.nii")>>

\* Line 121.
ArgvM2(a) == <<Num(FromInt(a.TRmt)), File("R.nii"), Op("-mult"), File("M2.nii")>>

\* Line 122.
ArgvMTsat(a) ==
    <<File("M1.nii"), File("M2.nii"), Op("-mult"), Num(M3(a)), Op("-sub"), File(a.save_file)>>

Calc(stage, argv, next) ==
    /\ pc = <<"calc", stage>>
    /\ Run(pc, "mrcalc", MrCalc(argv, fs), next)
    /\ UNCHANGED <<t1, pd, mt>>

CalcR1 ==
    /\ pc = <<"calc", "R1">>
    /\ IF RaisesR1(args) THEN Raise ELSE Calc("R1", ArgvR1(args, t1, pd), <<"calc", "R2">>)

CalcR2 == Calc("R2", ArgvR2(args, t1, pd), <<"calc", "R">>)

CalcR == Calc("R", ArgvR, <<"calc", "A1">>)

CalcA1 ==
    /\ pc = <<"calc", "A1">>
    /\ IF RaisesA1(args) THEN Raise ELSE Calc("A1", ArgvA1(args, t1, pd), <<"calc", "A2">>)

CalcA2 == Calc("A2", ArgvA2(args, t1, pd), <<"calc", "A">>)

CalcA == Calc("A", ArgvA, <<"calc", "M1">>)

CalcM1 == Calc("M1", ArgvM1(args, mt), <<"calc", "M2">>)

CalcM2 == Calc("M2", ArgvM2(args), <<"calc", "MTsat">>)

CalcMTsat == Calc("MTsat", ArgvMTsat(args), <<"cleanup", "">>)

\* Line 125: the condition under which rm is started.
RemovesTempdir(a) == a.nocleanup

\* Lines 125-127.
Cleanup ==
    /\ pc = <<"cleanup", "">>
    /\ IF RemovesTempdir(args)
       THEN Run(pc, "rm", RmTempdir(fs), <<"exit", "">>)
       ELSE /\ pc' = <<"exit", "">>
            /\ UNCHANGED <<args, fs, trace, budget, exitcode>>
    /\ UNCHANGED <<t1, pd, mt>>

\* Line 129: exit() with no argument is status 0.
ExitStatus(tr) == 0

Exit ==
    /\ pc = <<"exit", "">>
    /\ pc' = <<"done", "">>
    /\ exitcode' = ExitStatus(trace)
    /\ UNCHANGED <<args, fs, t1, pd, mt, trace, budget>>

(***************************************************************************)
(* Runs of mt_calc.py.  The inputs: every parameter combination of         *)
(* ParamChoices on single-echo scans of every intensity triple, with the   *)
(* commands succeeding; and the default parameters on one scan triple with *)
(* every flag combination and a failing environment.                       *)
(***************************************************************************)
Intensities == {0, 30, 50, 80, 100}

ParamChoices ==
    [at1 : {At1Default, 10, 0}, apd : {ApdDefault, -6}, amt : {AmtDefault, 4},
     TRt1 : {TRt1Default, 25}, TRpd : {TRpdDefault, 0}, TRmt : {TRmtDefault, 18}]

DefaultParams ==
    [at1 |-> At1Default, apd |-> ApdDefault, amt |-> AmtDefault,
     TRt1 |-> TRt1Default, TRpd |-> TRpdDefault, TRmt |-> TRmtDefault]

MTArgs(p, se, nc, g) ==
    [singleecho |-> se, nocleanup |-> nc, gauss |-> g, save_file |-> "save_file",
     at1 |-> p.at1, apd |-> p.apd, amt |-> p.amt,
     TRt1 |-> p.TRt1, TRpd |-> p.TRpd, TRmt |-> p.TRmt]

\* A scan of e echoes whose first echo has intensity v.
Echoes(v, e) == [k \in 1..e |-> v + 10 * (k - 1)]

MTFiles(a, b, c, e) ==
    ("t1_file" :> RawScan(Echoes(a, e), <<>>)) @@ ("pd_file" :> RawScan(Echoes(b, e), <<>>))
    @@ ("mt_file" :> RawScan(Echoes(c, e), <<>>))

\* Lines 45-55: arguments parsed, tempdir created, the path variables set.
InitMT ==
    /\ pc = <<"conv", "t1">>
    /\ t1 = ConvertedFile("t1")
    /\ pd = ConvertedFile("pd")
    /\ mt = ConvertedFile("mt")
    /\ trace = <<>>
    /\ exitcode = -1
    /\ \/ /\ budget = 0
          /\ \E p \in ParamChoices : args = MTArgs(p, TRUE, FALSE, 0)
          /\ \E a \in Intensities, b \in Intensities, c \in Intensities :
                fs = MTFiles(a, b, c, 1)
       \/ /\ budget = MaxFaults
          /\ \E se \in BOOLEAN, nc \in BOOLEAN, g \in 0..MaxGauss :
                args = MTArgs(DefaultParams, se, nc, g)
          /\ \E e \in 1..MaxEchoes : fs = MTFiles(100, 80, 50, e)

NextMT ==
    \/ \E i \in 1..3 : Convert(Modalities[i])
    \/ \E i \in 1..3 : Average(Modalities[i])
    \/ \E i \in 1..3 : GaussFilter(Modalities[i])
    \/ CalcR1
    \/ CalcR2
    \/ CalcR
    \/ CalcA1
    \/ CalcA2
    \/ CalcA
    \/ CalcM1
    \/ CalcM2
    \/ CalcMTsat
    \/ Cleanup
    \/ Exit

Spec == InitMT /\ [][NextMT]_vars

(***************************************************************************)
(* Basic_Metrics.py.                                                       *)
(***************************************************************************)
\* Line 42: the awk program's threshold.
AwkThreshold == 500

\* Mutant of AwkCmd: the comparison $i <= 500.
RECURSIVE AwkCmdLessEqual(_, _)
AwkCmdLessEqual(rec, i) ==
    IF i > Len(rec) THEN rec
    ELSE AwkCmdLessEqual(IF rec[i] <= AwkThreshold THEN [rec EXCEPT ![i] = 0] ELSE rec, i + 1)

\* Line 42: for (i = 1; i <= NF; i++) if ($i < 500) $i = 0; print
RECURSIVE AwkCmd(_, _)
AwkCmd(rec, i) ==
    IF i > Len(rec) THEN rec
    ELSE AwkCmd(IF rec[i] < AwkThreshold THEN [rec EXCEPT ![i] = 0] ELSE rec, i + 1)

\* awk -i inplace <program> <file>: the file is rewritten with the program's output.
AwkInplace(file, f) ==
    IF file \notin DOMAIN f THEN Failed(f) ELSE Ok([f EXCEPT ![file] = AwkCmd(f[file], 1)])

\* mrconvert -fslgrad <bvec> <bval> <in> <out>: the image with the gradient
\* table embedded.
MrConvertGrad(bvec, bval, src, dst, f) ==
    IF {bvec, bval, src} \subseteq DOMAIN f
    THEN Ok((dst :> [img |-> f[src], grad |-> f[bval]]) @@ f)
    ELSE Failed(f)

\* dwi2tensor <in> <out>: the tensor fitted with the embedded gradient table.
Dwi2Tensor(src, dst, f) ==
    IF src \in DOMAIN f THEN Ok((dst :> [tensor |-> f[src].grad]) @@ f) ELSE Failed(f)

\* tensor2metric -fa <fa> -rd <rd> -adc <adc> <in>
Tensor2Metric(fa, rd, adc, src, f) ==
    IF src \in DOMAIN f
    THEN Ok((fa :> [metric |-> "fa", of |-> f[src].tensor])
            @@ (rd :> [metric |-> "rd", of |-> f[src].tensor])
            @@ (adc :> [metric |-> "adc", of |-> f[src].tensor]) @@ f)
    ELSE Failed(f)

DTIStep(stage, tool, res, next) ==
    /\ pc = <<"dti", stage>>
    /\ Run(pc, tool, res, next)
    /\ UNCHANGED <<t1, pd, mt>>

\* Line 37.
DTIConvert ==
    DTIStep("conv", "nanconvert_bruker", NanConvert(args.scan_file, "dti_scan.nii", fs),
            <<"dti", "awk">>)

\* Line 43.
DTIThreshold ==
    DTIStep("awk", "awk", AwkInplace("dti_scan.bval", fs), <<"dti", "mrconvert">>)

\* Lines 46-47.
DTIMrConvert ==
    DTIStep("mrconvert", "mrconvert",
            MrConvertGrad("dti_scan.bvec", "dti_scan.bval", "dti_scan.nii", "dti_scan.mih", fs),
            <<"dti", "dwi2tensor">>)

\* Line 50.
DTITensor ==
    DTIStep("dwi2tensor", "dwi2tensor", Dwi2Tensor("dti_scan.mih", "dti_tensor.mih", fs),
            <<"dti", "tensor2metric">>)

\* Lines 53-54.
DTIMetrics ==
    DTIStep("tensor2metric", "tensor2metric",
            Tensor2Metric(args.fa_file, args.rd_file, args.adc_file, "dti_tensor.mih", fs),
            <<"dti", "end">>)

\* Lines 56-57: the script ends after the comment that announces the B0 step.
DTIEnd ==
    /\ pc = <<"dti", "end">>
    /\ pc' = <<"done", "">>
    /\ exitcode' = 0
    /\ UNCHANGED <<args, fs, t1, pd, mt, trace, budget>>

GradValues == {0, 299, 300, 499, 500, 501, 1000}

RECURSIVE SeqsUpTo(_, _)
SeqsUpTo(S, n) ==
    IF n = 0 THEN {<<>>}
    ELSE LET shorter == SeqsUpTo(S, n - 1)
         IN  shorter \cup {Append(q, x) : q \in shorter, x \in S}

\* Lines 30-34: arguments parsed (the output names at their defaults), tempdir created.
InitDTI ==
    /\ pc = <<"dti", "conv">>
    /\ args = [scan_file |-> "scan_file", fa_file |-> "fa_map.nii", rd_file |-> "rd_map.nii",
               adc_file |-> "adc_map.nii", b0_file |-> "b0_image.nii"]
    /\ \E b \in SeqsUpTo(GradValues, MaxFields) \ {<<>>} :
          fs = ("scan_file" :> RawScan([k \in 1..Len(b) |-> 100], b))
    /\ t1 = ""
    /\ pd = ""
    /\ mt = ""
    /\ trace = <<>>
    /\ budget = MaxFaults
    /\ exitcode = -1

NextDTI ==
    \/ DTIConvert
    \/ DTIThreshold
    \/ DTIMrConvert
    \/ DTITensor
    \/ DTIMetrics
    \/ DTIEnd

SpecDTI == InitDTI /\ [][NextDTI]_vars

(***************************************************************************)
(* Properties.                                                             *)
(***************************************************************************)
AllSucceeded == \A i \in 1..Len(trace) : trace[i].rc = 0

Ran(tool) == {i \in 1..Len(trace) : trace[i].tool = tool}

Params == {"at1", "apd", "amt", "TRt1", "TRpd", "TRmt"}

\* The reference value of section 4.3: R1 = 0.5 * num / den.
RefR1(a, t1v, pdv) ==
    Mul(<<1, 2>>,
        Div(Sub(Mul(Div(FromInt(a.at1), FromInt(a.TRt1)), t1v),
                Mul(Div(FromInt(a.apd), FromInt(a.TRpd)), pdv)),
            Sub(Div(pdv, FromInt(a.apd)), Div(t1v, FromInt(a.at1)))))

\* The amplitude denominator TRpd*at1*t1v - TRt1*apd*pdv.
RefA2(a, t1v, pdv) ==
    Sub(Mul(FromInt(a.TRpd * a.at1), t1v), Mul(FromInt(a.TRt1 * a.apd), pdv))

\* The R1 denominator (pdv/apd) - (t1v/at1).
RefR2(a, t1v, pdv) == Sub(Div(pdv, FromInt(a.apd)), Div(t1v, FromInt(a.at1)))

\* The reference value of section 4.4: A = A1 / A2.
RefA(a, t1v, pdv) ==
    Div(Mul(Mul(pdv, t1v),
            Sub(Div(FromInt(a.TRpd * a.at1), FromInt(a.apd)),
                Div(FromInt(a.TRt1 * a.apd), FromInt(a.at1)))),
        RefA2(a, t1v, pdv))

\* The reference value of section 4.5.
RefMTsat(a, t1v, pdv, mtv) ==
    Sub(Mul(Sub(Div(Mul(FromInt(a.amt), RefA(a, t1v, pdv)), mtv), One),
            Mul(FromInt(a.TRmt), RefR1(a, t1v, pdv))),
        Div(FromInt(a.amt * a.amt), FromInt(2)))

InputsPresent == {t1, pd, mt} \subseteq DOMAIN fs

Voxels == 1..Len(fs[t1].vox)

NoZeroDenominator(k) ==
    /\ args.at1 # 0 /\ args.apd # 0 /\ args.TRt1 # 0 /\ args.TRpd # 0
    /\ ~IsZero(fs[mt].vox[k])
    /\ ~IsZero(RefR2(args, fs[t1].vox[k], fs[pd].vox[k]))
    /\ ~IsZero(RefA2(args, fs[t1].vox[k], fs[pd].vox[k]))

\* C1: when the last formula stage has written the output map and every
\* command succeeded, each voxel of the map whose denominators are all
\* nonzero equals the reference value MTsat computed from the voxel's
\* intensities in the three volumes handed to the formula stages.
C1_MatchesReference ==
    (pc = <<"cleanup", "">> /\ AllSucceeded) =>
        /\ InputsPresent
        /\ args.save_file \in DOMAIN fs
        /\ Len(fs[args.save_file].vox) = Len(fs[t1].vox)
        /\ \A k \in Voxels :
              NoZeroDenominator(k) =>
                  fs[args.save_file].vox[k]
                      = RefMTsat(args, fs[t1].vox[k], fs[pd].vox[k], fs[mt].vox[k])

\* C1 witness: t1v=100, pdv=80, mtv=50 with the default parameters gives 93.52.
C1_Witness ==
    /\ pc = <<"cleanup", "">>
    /\ AllSucceeded
    /\ \A q \in Params : args[q] = DefaultParams[q]
    /\ fs[t1].vox = <<FromInt(100)>>
    /\ fs[pd].vox = <<FromInt(80)>>
    /\ fs[mt].vox = <<FromInt(50)>>
    /\ NoZeroDenominator(1)
    /\ fs[args.save_file].vox = <<<<2338, 25>>>>

\* C2: a failed stage is the last stage of its run, and no stage runs twice.
C2_HaltsAtFirstFailure ==
    /\ \A i \in 1..Len(trace) : trace[i].rc # 0 => i = Len(trace)
    /\ \A i, j \in 1..Len(trace) : trace[i].stage = trace[j].stage => i = j

\* C3: a terminated run whose exit code is zero had no failing stage.
C3_NonzeroExitOnFailure ==
    (pc[1] \in {"done", "crashed"} /\ exitcode = 0) => AllSucceeded

\* C4: at the end of a run the scratch files are gone unless --nocleanup was
\* given, and with --nocleanup no removal was started.
C4_CleanupUnlessRetained ==
    pc = <<"done", "">> =>
        IF args.nocleanup THEN Ran("rm") = {} ELSE TempFiles \cap DOMAIN fs = {}

\* C5: a terminated run with smoothing extent N > 0 whose commands all
\* succeeded ran the smoothing filter on the three volumes, handed the
\* filtered volumes to the formula stages and wrote the output map.
C5_SmoothingThenFormulas ==
    (pc[1] \in {"done", "crashed"} /\ args.gauss > 0 /\ AllSucceeded) =>
        /\ pc[1] = "done"
        /\ Cardinality(Ran("mrfilter")) = 3
        /\ \A i \in 1..3 : Path(Modalities[i]) = FilteredFile(Modalities[i])
        /\ args.save_file \in DOMAIN fs

ZeroIn(file) ==
    /\ file \in DOMAIN fs
    /\ \E k \in 1..Len(fs[file].vox) : IsZero(fs[file].vox[k])

\* A formula denominator that a stage has evaluated to exactly 0 at voxel k.
ZeroDenominatorAt(k) ==
    \/ "R2.nii" \in DOMAIN fs /\ IsZero(fs["R2.nii"].vox[k])
    \/ "A2.nii" \in DOMAIN fs /\ IsZero(fs["A2.nii"].vox[k])
    \/ "M1.nii" \in DOMAIN fs /\ mt \in DOMAIN fs /\ IsZero(fs[mt].vox[k])

ZeroDenominatorSeen == ZeroIn("R2.nii") \/ ZeroIn("A2.nii") \/ ("M1.nii" \in DOMAIN fs /\ ZeroIn(mt))

\* C6: once a formula stage has evaluated a denominator to exactly 0 the run
\* does not abort; it reaches the end of the formula stages having started
\* all nine of them, and when every command succeeded the output map is
\* written and holds NaN or an infinity at each such voxel.
C6_ZeroDenominatorNotFatal ==
    /\ ZeroDenominatorSeen => pc[1] # "crashed"
    /\ (pc = <<"cleanup", "">> /\ ZeroDenominatorSeen) => Cardinality(Ran("mrcalc")) = 9
    /\ (pc = <<"cleanup", "">> /\ AllSucceeded) =>
          /\ args.save_file \in DOMAIN fs
          /\ \A k \in 1..Len(fs[args.save_file].vox) :
                ZeroDenominatorAt(k) => ~IsFinite(fs[args.save_file].vox[k])

\* C6 witness: the R1 denominator is 0 at a voxel and the written map is not
\* finite there.
C6_Witness ==
    /\ pc = <<"cleanup", "">>
    /\ AllSucceeded
    /\ ZeroIn("R2.nii")
    /\ ~ZeroIn("A2.nii")
    /\ ~ZeroIn(mt)
    /\ ~IsFinite(fs[args.save_file].vox[1])

\* The loader's output for modality m.
LoaderOutput(m) == NanConvert(RawFile(m), ConvertedFile(m), fs).fs[ConvertedFile(m)]

\* C7: with --singleecho no averaging command is ever started and the
\* volumes handed on are the loader's outputs; with --gauss 0 no smoothing
\* command is ever started and the volumes handed to the formula stages are
\* the ones the preceding stage (loader or averager) produced.
C7_DisabledStageIsIdentity ==
    /\ args.singleecho =>
          /\ Ran("mrmath") = {}
          /\ pc[1] \in {"gauss", "calc"} =>
                \A i \in 1..3 :
                    LET m == Modalities[i]
                    IN  /\ Path(m) = ConvertedFile(m)
                        /\ Path(m) \in DOMAIN fs => fs[Path(m)] = LoaderOutput(m)
    /\ args.gauss = 0 =>
          /\ Ran("mrfilter") = {}
          /\ pc[1] = "calc" =>
                \A i \in 1..3 :
                    LET m == Modalities[i]
                    IN  Path(m) = IF args.singleecho THEN ConvertedFile(m) ELSE AvgFile(m)

\* C7 witness: both stages disabled and a formula stage has consumed the
\* loader's volumes.
C7_Witness ==
    /\ args.singleecho
    /\ args.gauss = 0
    /\ pc = <<"calc", "R2">>
    /\ "R1.nii" \in DOMAIN fs
    /\ fs[t1] = LoaderOutput("t1")

\* C10: whenever a formula stage has been started, the six acquisition
\* parameters are strictly positive.
C10_ParametersPositive ==
    Ran("mrcalc") # {} => \A q \in Params : args[q] > 0

\* The gradient magnitudes of the raw scan, as the loader wrote them.
OriginalBvals == fs["scan_file"].bvals

Thresholded(m) == IF m < 500 THEN 0 ELSE m

AwkSucceeded == \E i \in Ran("awk") : trace[i].rc = 0

\* C8: once the thresholding command has succeeded, every value m of the
\* gradient-magnitude file is 0 if m < 500 and m if m >= 500, the same holds
\* of the gradient table handed to the tensor fit, and the thresholding
\* command is started before the tensor fit is.
C8_ThresholdBeforeFit ==
    /\ AwkSucceeded =>
          /\ "dti_scan.bval" \in DOMAIN fs
          /\ Len(fs["dti_scan.bval"]) = Len(OriginalBvals)
          /\ \A k \in 1..Len(OriginalBvals) :
                fs["dti_scan.bval"][k] = Thresholded(OriginalBvals[k])
          /\ "dti_tensor.mih" \in DOMAIN fs =>
                \A k \in 1..Len(OriginalBvals) :
                    fs["dti_tensor.mih"].tensor[k] = Thresholded(OriginalBvals[k])
    /\ \A j \in Ran("dwi2tensor") : \E i \in Ran("awk") : i < j

\* C8 witness: a file holding a value below and a value at the threshold has
\* been thresholded and fitted.
C8_Witness ==
    /\ AwkSucceeded
    /\ "dti_tensor.mih" \in DOMAIN fs
    /\ OriginalBvals = <<499, 500>>
    /\ fs["dti_tensor.mih"].tensor = <<0, 500>>

\* C9: a completed run whose commands all succeeded has written the FA, RD
\* and ADC maps and the B0 image.
C9_FourOutputs ==
    (pc = <<"done", "">> /\ AllSucceeded) =>
        {args.fa_file, args.rd_file, args.adc_file, args.b0_file} \subseteq DOMAIN fs

====
